---- MODULE Spec2Model ----
(***************************************************************************)
(* LU decomposition with relative (row-scaled) partial pivoting: a model   *)
(* of class LUMatrix and of main() in src/lu.cpp.                          *)
(*                                                                         *)
(* Numbers.  A double is modelled in exact arithmetic as a reduced         *)
(* fraction <<n, d>> with d > 0, extended with the IEEE special values the *)
(* code can produce by dividing by zero: NaN = <<0, 0>>, +Inf = <<1, 0>>,  *)
(* -Inf = <<-1, 0>>.  Rounding, overflow and the sign of zero are not      *)
(* modelled.                                                               *)
(*                                                                         *)
(* Granularity.  One action per public operation; decompose() is a begin   *)
(* step (lines 84-88), one step per iteration of its pivot loop (lines     *)
(* 89-111) and the return, so that the states "during decompose" exist. The*)
(* accessors at() and operator[] are used by neither decompose() nor       *)
(* main() and are left out.  An object is populated once.                  *)
(***************************************************************************)
EXTENDS Integers, Sequences, FiniteSets

VARIABLES
    obj,        \* "none" before the constructor ran, "live" after
    dim,        \* _dim
    swaps,      \* _swaps
    order,      \* _order  (function 0..dim-1 -> Int)
    tolerance,  \* _tolerance
    matrix,     \* _matrix (function 0..dim-1 -> 0..dim-1 -> value)
    loaded,     \* operator>> has filled the matrix
    phase,      \* decompose(): "idle", "running", "completed", "aborted"
    pivot,      \* decompose()'s loop variable
    mpc,        \* main()'s position ("api": the object is driven by a free caller)
    argn,       \* main()'s n
    A0,         \* history: the matrix when the current decompose() was entered
    sels,       \* history: index_best's result at each pivot step of this call
    zdiv,       \* history: a division with divisor zero was evaluated in this call
    snap,       \* history: <<matrix, order, swaps>> at the end of the last pivot step
    calls,      \* history: number of decompose() calls on the object
    displayed,  \* history: display() ran since the last decompose()/construction
    probe       \* pivot-selection harness: <<row, scale, result>> of a scaled run

vars == <<obj, dim, swaps, order, tolerance, matrix, loaded, phase, pivot, mpc,
          argn, A0, sels, zdiv, snap, calls, displayed, probe>>

----------------------------------------------------------------------------
(* Bounds of the model *)

\* largest magnitude of an entry of the exhaustively enumerated 1x1 and 2x2 inputs
MaxVal == 2

\* decompose() calls made on one object by the free caller
MaxCalls == 2

\* a further decompose() is entered only on a matrix whose numerators and
\* denominators are within MaxNum: the model's integers are 32 bits wide, and
\* the fractions of a decomposition of a decomposition grow past them
MaxNum == 16

----------------------------------------------------------------------------
(* double arithmetic, exact, with NaN and the infinities *)

NaN == <<0, 0>>

Zero == <<0, 1>>

One == <<1, 1>>

Q(x) == <<x, 1>>

IsNaN(a) == a[1] = 0 /\ a[2] = 0

IsInf(a) == a[1] # 0 /\ a[2] = 0

IsFinite(a) == a[2] # 0

IntAbs(x) == IF x < 0 THEN -x ELSE x

Sgn(x) == IF x < 0 THEN -1 ELSE IF x > 0 THEN 1 ELSE 0

RECURSIVE GCD(_, _)
GCD(a, b) == IF b = 0 THEN a ELSE GCD(b, a % b)

\* the value n/d in lowest terms; d = 0 gives the special value of n's sign
Norm(n, d) ==
    IF d = 0 THEN <<Sgn(n), 0>>
    ELSE LET g == GCD(IntAbs(n), IntAbs(d))
             s == Sgn(d)
         IN  <<(s * n) \div g, (s * d) \div g>>

\* std::abs
Abs(a) == <<IntAbs(a[1]), a[2]>>

\* a > b ; false when either is NaN
Gt(a, b) ==
    IF IsNaN(a) \/ IsNaN(b) THEN FALSE
    ELSE IF IsInf(a) /\ IsInf(b) THEN a[1] > b[1]
    ELSE a[1] * b[2] > b[1] * a[2]

\* a < b ; false when either is NaN
Lt(a, b) == Gt(b, a)

\* a / b : x/0 is an infinity for x # 0 and NaN for x = 0
Div(a, b) ==
    IF IsNaN(a) \/ IsNaN(b) THEN NaN
    ELSE IF IsInf(b) THEN (IF IsInf(a) THEN NaN ELSE Zero)
    ELSE IF IsInf(a) THEN (IF b[1] < 0 THEN <<-a[1], 0>> ELSE a)
    ELSE Norm(a[1] * b[2], a[2] * b[1])

\* a * b
Mul(a, b) ==
    IF IsNaN(a) \/ IsNaN(b) THEN NaN
    ELSE Norm(a[1] * b[1], a[2] * b[2])

\* a - b
Sub(a, b) ==
    IF IsNaN(a) \/ IsNaN(b) THEN NaN
    ELSE IF IsInf(a) /\ IsInf(b) THEN (IF a[1] = b[1] THEN NaN ELSE a)
    ELSE Norm(a[1] * b[2] - b[1] * a[2], a[2] * b[2])

\* a + b
Add(a, b) == Sub(a, <<-b[1], b[2]>>)

----------------------------------------------------------------------------
(* class LUMatrix *)

Idx(n) == 0 .. (n - 1)

\* the value index_best's throw of LUMatrixException(4) is modelled by
Throw == -1

\* tolerance < 0.0 ? 1.0/1024 : tolerance
EffectiveTolerance(t) == IF Lt(t, Zero) THEN <<1, 1024>> ELSE t

\* the inner loop of index_best: row_max over columns j = from .. n-1, starting at rm
RECURSIVE RowMaxFrom(_, _, _, _)
RowMaxFrom(row, n, j, rm) ==
    IF j >= n THEN rm
    ELSE RowMaxFrom(row, n, j + 1, IF Gt(Abs(row[j]), rm) THEN Abs(row[j]) ELSE rm)

RowMax(m, n, i, p) == RowMaxFrom(m[i], n, p, Abs(m[i][p]))

\* the outer loop of index_best from row i on, with the locals index and best
RECURSIVE IndexBestFrom(_, _, _, _, _, _, _)
IndexBestFrom(m, n, p, tol, i, index, best) ==
    IF i >= n THEN index
    ELSE LET row_max == RowMax(m, n, i, p)
         IN  IF Lt(row_max, tol) THEN Throw
             ELSE IF Gt(Div(Abs(m[i][p]), row_max), best)
                  THEN IndexBestFrom(m, n, p, tol, i + 1, i, Abs(Div(m[i][p], row_max)))
                  ELSE IndexBestFrom(m, n, p, tol, i + 1, index, best)

\* a plausible bug: textbook partial pivoting, the largest raw |m[i][p]|
RECURSIVE IndexRawFrom(_, _, _, _, _, _, _)
IndexRawFrom(m, n, p, tol, i, index, best) ==
    IF i >= n THEN index
    ELSE LET row_max == RowMax(m, n, i, p)
         IN  IF Lt(row_max, tol) THEN Throw
             ELSE IF Gt(Abs(m[i][p]), best)
                  THEN IndexRawFrom(m, n, p, tol, i + 1, i, Abs(m[i][p]))
                  ELSE IndexRawFrom(m, n, p, tol, i + 1, index, best)

index_raw(m, n, p, tol) == IndexRawFrom(m, n, p, tol, p, p, Zero)

\* a plausible bug: >= for > at line 217, so that a tie moves to the later row
RECURSIVE IndexLastFrom(_, _, _, _, _, _, _)
IndexLastFrom(m, n, p, tol, i, index, best) ==
    IF i >= n THEN index
    ELSE LET row_max == RowMax(m, n, i, p)
             ratio == Div(Abs(m[i][p]), row_max)
         IN  IF Lt(row_max, tol) THEN Throw
             ELSE IF Gt(ratio, best) \/ (IsFinite(ratio) /\ ratio = best)
                  THEN IndexLastFrom(m, n, p, tol, i + 1, i, Abs(Div(m[i][p], row_max)))
                  ELSE IndexLastFrom(m, n, p, tol, i + 1, index, best)

index_last(m, n, p, tol) == IndexLastFrom(m, n, p, tol, p, p, Zero)

\* int index_best(const int& index_pivot)
index_best(m, n, p, tol) == IndexBestFrom(m, n, p, tol, p, p, Zero)

\* the rows index_best scans before it returns or throws
RECURSIVE ScannedFrom(_, _, _, _, _)
ScannedFrom(m, n, p, tol, i) ==
    IF i >= n THEN {}
    ELSE IF Lt(RowMax(m, n, i, p), tol) THEN {i}
    ELSE {i} \cup ScannedFrom(m, n, p, tol, i + 1)

Scanned(m, n, p, tol) == ScannedFrom(m, n, p, tol, p)

\* index_best evaluates |m[i][p]| / row_max with row_max = 0 (line 217)
ZeroDivInSelect(m, n, p, tol) ==
    \E i \in Scanned(m, n, p, tol) :
        /\ ~Lt(RowMax(m, n, i, p), tol)
        /\ RowMax(m, n, i, p) = Zero

\* void rswap(const int& i, const int& j): the two row pointers change places
rswap(m, i, j) == [m EXCEPT ![i] = m[j], ![j] = m[i]]

\* the exchange of _order[pivot] and _order[swap] through temp (lines 96-98)
SwapOrder(o, i, j) == [o EXCEPT ![i] = o[j], ![j] = o[i]]

\* the elimination loops of decompose (lines 102-110) at pivot p
Eliminate(m, n, p) ==
    [r \in Idx(n) |->
        IF r <= p THEN m[r]
        ELSE LET c == Div(m[r][p], m[p][p])
             IN  [col \in Idx(n) |->
                    IF col < p THEN m[r][col]
                    ELSE IF col = p THEN c
                    ELSE Sub(m[r][col], Mul(c, m[p][col]))]]

\* the elimination at pivot p divides by _matrix[pivot][pivot] = 0 (line 104)
ZeroDivInElim(m, n, p) == p + 1 < n /\ m[p][p] = Zero

Identity(n) == [i \in Idx(n) |-> i]

\* a plausible bug: the rows are interchanged before the tolerance test fails
StepOutcomeLate(m, o, sw, n, p, tol) ==
    LET swap == index_best(m, n, p, tol)
        early == index_best(m, n, p, Zero)
    IN  IF swap = Throw
        THEN [thrown |-> TRUE,
              matrix |-> IF early # p THEN rswap(m, p, early) ELSE m,
              order  |-> IF early # p THEN SwapOrder(o, p, early) ELSE o,
              swaps  |-> IF early # p THEN sw + 1 ELSE sw,
              sel    |-> Throw]
        ELSE LET m1 == IF swap # p THEN rswap(m, p, swap) ELSE m
             IN  [thrown |-> FALSE,
                  matrix |-> Eliminate(m1, n, p),
                  order  |-> IF swap # p THEN SwapOrder(o, p, swap) ELSE o,
                  swaps  |-> IF swap # p THEN sw + 1 ELSE sw,
                  sel    |-> swap]

\* one iteration of decompose's pivot loop (lines 89-111): the new _matrix,
\* _order and _swaps, or thrown when index_best throws (caught at line 113)
StepOutcome(m, o, sw, n, p, tol) ==
    LET swap == index_best(m, n, p, tol)
    IN  IF swap = Throw
        THEN [thrown |-> TRUE, matrix |-> m, order |-> o, swaps |-> sw, sel |-> Throw]
        ELSE LET m1 == IF swap # p THEN rswap(m, p, swap) ELSE m
             IN  [thrown |-> FALSE,
                  matrix |-> Eliminate(m1, n, p),
                  order  |-> IF swap # p THEN SwapOrder(o, p, swap) ELSE o,
                  swaps  |-> IF swap # p THEN sw + 1 ELSE sw,
                  sel    |-> swap]

----------------------------------------------------------------------------
(* Inputs *)

\* arguments given to the constructor, and typed at main's prompt
CtorArgs == {-5, 0, 1, 2, 3}

\* tolerances given to decompose by the free caller: negative (the default
\* 1/1024 is selected), zero, and two that some rows of the inputs fall below
Tolerances == {Q(-1), Zero, Q(1), Q(2)}

\* the tolerance main passes (line 279)
MainTolerance == <<1, 1000000>>

\* section 8's scenario
Scenario == <<<<2, 1, 1>>, <<4, 3, 3>>, <<8, 7, 9>>>>

\* rows the 3x3 inputs are assembled from
Rows3 == { <<0, 0, 0>>, <<0, 1, 1>>, <<0, 0, 1>>, <<1, 1, 1>>,
           <<2, 4, 1>>, <<-1, 0, 2>>, <<1, 2, 3>>, <<0, -2, 1>>,
           <<2, 1, 1>>, <<4, 3, 3>>, <<8, 7, 9>> }

\* a matrix given as a tuple of tuples of integers, as the program stores it
FromRows(rows, n) == [i \in Idx(n) |-> [j \in Idx(n) |-> Q(rows[i + 1][j + 1])]]

\* what operator>> can read into an n x n matrix
Inputs(n) ==
    IF n = 3
    THEN {FromRows(rs, 3) : rs \in ([1 .. 3 -> Rows3] \cup {Scenario})}
    ELSE {[i \in Idx(n) |-> [j \in Idx(n) |-> Q(f[i][j])]] :
              f \in [Idx(n) -> [Idx(n) -> (-MaxVal) .. MaxVal]]}

\* what new int[_dim] may hold: the constructor does not initialise _order
UninitInts == {0, 1}

\* new double[_dim] is not initialised either; no action reads the placeholder
UninitMatrix(n) == [i \in Idx(n) |-> [j \in Idx(n) |-> NaN]]

----------------------------------------------------------------------------
(* Operations of LUMatrix *)

\* LUMatrix(const int& n), lines 37-62
DoConstruct(n) ==
    /\ obj = "none"
    /\ obj' = "live"
    /\ IF n < 1
       THEN /\ dim' = 0
            /\ matrix' = UninitMatrix(0)
            /\ order' = Identity(0)
       ELSE /\ dim' = n
            /\ matrix' = UninitMatrix(n)
            /\ order' \in [Idx(n) -> UninitInts]
    /\ swaps' = 0
    /\ UNCHANGED <<tolerance, loaded, phase, pivot, A0, sels, zdiv, snap, calls,
                   displayed, probe>>

\* operator>>(std::istream&, LUMatrix&), lines 248-264, all reads succeeding
DoPopulate(M) ==
    /\ obj = "live"
    /\ ~loaded
    /\ phase # "running"
    /\ matrix' = M
    /\ loaded' = TRUE
    /\ UNCHANGED <<obj, dim, swaps, order, tolerance, phase, pivot, A0, sels, zdiv,
                   snap, calls, displayed, probe>>

\* every entry of m is within the range a further decompose() is modelled on
InRange(m, n) ==
    \A i \in Idx(n), j \in Idx(n) : IntAbs(m[i][j][1]) <= MaxNum /\ m[i][j][2] <= MaxNum

\* decompose(const double& tolerance) up to its pivot loop, lines 84-88
DoDecomposeBegin(t) ==
    /\ obj = "live"
    /\ loaded
    /\ phase # "running"
    /\ calls < MaxCalls
    /\ calls = 0 \/ InRange(matrix, dim)
    /\ tolerance' = EffectiveTolerance(t)
    /\ order' = Identity(dim)
    /\ pivot' = 0
    /\ phase' = "running"
    /\ A0' = matrix
    /\ sels' = <<>>
    /\ zdiv' = FALSE
    /\ snap' = <<matrix, Identity(dim), swaps>>
    /\ calls' = calls + 1
    /\ displayed' = FALSE
    /\ UNCHANGED <<obj, dim, swaps, matrix, loaded, probe>>

\* one iteration of the pivot loop, lines 89-111; the throw ends the call (113-116)
DoPivotStep ==
    /\ phase = "running"
    /\ pivot < dim
    /\ \E r \in {StepOutcome(matrix, order, swaps, dim, pivot, tolerance)} :
       LET m1 == IF r.sel # pivot THEN rswap(matrix, pivot, r.sel) ELSE matrix
       IN  /\ matrix' = r.matrix
           /\ order' = r.order
           /\ swaps' = r.swaps
           /\ IF r.thrown
              THEN /\ phase' = "aborted"
                   /\ zdiv' = (zdiv \/ ZeroDivInSelect(matrix, dim, pivot, tolerance))
                   /\ UNCHANGED <<pivot, sels, snap>>
              ELSE /\ pivot' = pivot + 1
                   /\ phase' = "running"
                   /\ sels' = Append(sels, r.sel)
                   /\ zdiv' = (\/ zdiv
                               \/ ZeroDivInSelect(matrix, dim, pivot, tolerance)
                               \/ ZeroDivInElim(m1, dim, pivot))
                   /\ snap' = <<r.matrix, r.order, r.swaps>>
    /\ UNCHANGED <<obj, dim, tolerance, loaded, A0, calls, displayed, probe>>

\* the pivot loop's condition is false (line 89) and decompose returns
DoDecomposeReturn ==
    /\ phase = "running"
    /\ pivot >= dim
    /\ phase' = "completed"
    /\ UNCHANGED <<obj, dim, swaps, order, tolerance, matrix, loaded, pivot, A0, sels,
                   zdiv, snap, calls, displayed, probe>>

\* display(std::ostream&), lines 119-157
DoDisplay ==
    /\ obj = "live"
    /\ phase # "running"
    /\ ~displayed
    /\ displayed' = TRUE
    /\ UNCHANGED <<obj, dim, swaps, order, tolerance, matrix, loaded, phase, pivot,
                   A0, sels, zdiv, snap, calls, probe>>

----------------------------------------------------------------------------
(* The object driven by a free caller *)

Construct == mpc = "api" /\ (\E n \in CtorArgs : DoConstruct(n)) /\ UNCHANGED <<mpc, argn>>

Populate ==
    /\ mpc = "api"
    /\ obj = "live"
    /\ ~loaded
    /\ \E M \in Inputs(dim) : DoPopulate(M)
    /\ UNCHANGED <<mpc, argn>>

DecomposeBegin ==
    mpc = "api" /\ (\E t \in Tolerances : DoDecomposeBegin(t)) /\ UNCHANGED <<mpc, argn>>

PivotStep == mpc = "api" /\ DoPivotStep /\ UNCHANGED <<mpc, argn>>

DecomposeReturn == mpc = "api" /\ DoDecomposeReturn /\ UNCHANGED <<mpc, argn>>

Display == mpc = "api" /\ DoDisplay /\ UNCHANGED <<mpc, argn>>

InitObject ==
    /\ obj = "none"
    /\ dim = 0
    /\ swaps = 0
    /\ order = Identity(0)
    /\ tolerance = NaN
    /\ matrix = UninitMatrix(0)
    /\ loaded = FALSE
    /\ phase = "idle"
    /\ pivot = 0
    /\ argn = 0
    /\ A0 = UninitMatrix(0)
    /\ sels = <<>>
    /\ zdiv = FALSE
    /\ snap = <<UninitMatrix(0), Identity(0), 0>>
    /\ calls = 0
    /\ displayed = FALSE
    /\ probe = <<>>

Init == InitObject /\ mpc = "api"

Next ==
    Construct \/ Populate \/ DecomposeBegin \/ PivotStep \/ DecomposeReturn \/ Display

Spec == Init /\ [][Next]_vars

----------------------------------------------------------------------------
(* main(), lines 266-287 *)

\* the condition of the while at line 276
OutOfRange(n) == n < 3 \/ n > 1000000

\* lines 270-276: the block runs once and reads n; with n in range the
\* while's condition is false and main goes on to line 277
MainPrompt ==
    /\ mpc = "start"
    /\ \E n \in CtorArgs :
          /\ argn' = n
          /\ mpc' = IF OutOfRange(n) THEN "loop" ELSE "construct"
    /\ UNCHANGED <<obj, dim, swaps, order, tolerance, matrix, loaded, phase, pivot,
                   A0, sels, zdiv, snap, calls, displayed, probe>>

\* line 276, n out of range: "while (cond);" has an empty body and never ends
MainLoopForever ==
    /\ mpc = "loop"
    /\ OutOfRange(argn)
    /\ mpc' = "spin"
    /\ UNCHANGED <<obj, dim, swaps, order, tolerance, matrix, loaded, phase, pivot,
                   argn, A0, sels, zdiv, snap, calls, displayed, probe>>

\* line 276, n out of range: a loop without side effects that does not end is
\* undefined behaviour, and an optimising build may remove it
MainLoopElided ==
    /\ mpc = "loop"
    /\ OutOfRange(argn)
    /\ mpc' = "construct"
    /\ UNCHANGED <<obj, dim, swaps, order, tolerance, matrix, loaded, phase, pivot,
                   argn, A0, sels, zdiv, snap, calls, displayed, probe>>

\* line 277
MainConstruct ==
    /\ mpc = "construct"
    /\ DoConstruct(argn)
    /\ mpc' = "read"
    /\ UNCHANGED argn

\* line 278, every read succeeding
MainRead ==
    /\ mpc = "read"
    /\ \E M \in Inputs(dim) : DoPopulate(M)
    /\ mpc' = "decompose"
    /\ UNCHANGED argn

\* line 278, a read failing: LUMatrixException(5) reaches the catch at line 282
MainReadBad ==
    /\ mpc = "read"
    /\ dim >= 1
    /\ mpc' = "exit"
    /\ UNCHANGED <<obj, dim, swaps, order, tolerance, matrix, loaded, phase, pivot,
                   argn, A0, sels, zdiv, snap, calls, displayed, probe>>

\* line 279: the call, up to the pivot loop
MainDecompose ==
    /\ mpc = "decompose"
    /\ phase = "idle"
    /\ DoDecomposeBegin(MainTolerance)
    /\ UNCHANGED <<mpc, argn>>

\* line 279: the call's pivot loop
MainPivotStep ==
    /\ mpc = "decompose"
    /\ DoPivotStep
    /\ UNCHANGED <<mpc, argn>>

\* line 279: the call returns after its last pivot step
MainDecomposeReturn ==
    /\ mpc = "decompose"
    /\ DoDecomposeReturn
    /\ UNCHANGED <<mpc, argn>>

\* line 280: decompose has returned, however it ended
MainDisplay ==
    /\ mpc = "decompose"
    /\ phase \in {"completed", "aborted"}
    /\ DoDisplay
    /\ mpc' = "exit"
    /\ UNCHANGED argn

MainInit == InitObject /\ mpc = "start"

MainNext ==
    \/ MainPrompt
    \/ MainLoopForever
    \/ MainLoopElided
    \/ MainConstruct
    \/ MainRead
    \/ MainReadBad
    \/ MainDecompose
    \/ MainPivotStep
    \/ MainDecomposeReturn
    \/ MainDisplay

MainSpec == MainInit /\ [][MainNext]_vars

----------------------------------------------------------------------------
(* Pivot selection alone: index_best applied to a matrix state, a pivot      *)
(* index and a tolerance, and to the same state with one candidate row       *)
(* multiplied by a positive constant.                                         *)

\* the positive constants a candidate row is multiplied by
Scales == {<<1, 2>>, Q(2), Q(3)}

ScaleRow(m, n, i, s) == [m EXCEPT ![i] = [j \in Idx(n) |-> Mul(s, m[i][j])]]

PivotInit ==
    /\ obj = "live"
    /\ dim \in {2, 3}
    /\ matrix \in Inputs(dim)
    /\ pivot \in Idx(dim)
    /\ tolerance \in {EffectiveTolerance(t) : t \in Tolerances}
    /\ swaps = 0
    /\ order = Identity(dim)
    /\ loaded = TRUE
    /\ phase = "idle"
    /\ mpc = "select"
    /\ argn = 0
    /\ A0 = matrix
    /\ sels = <<>>
    /\ zdiv = FALSE
    /\ snap = <<matrix, order, swaps>>
    /\ calls = 0
    /\ displayed = FALSE
    /\ probe = <<>>

\* index_best(pivot) on the matrix
Select ==
    /\ mpc = "select"
    /\ sels = <<>>
    /\ sels' = <<index_best(matrix, dim, pivot, tolerance)>>
    /\ UNCHANGED <<obj, dim, swaps, order, tolerance, matrix, loaded, phase, pivot,
                   mpc, argn, A0, zdiv, snap, calls, displayed, probe>>

\* index_best(pivot) on the matrix with candidate row i multiplied by s
SelectScaled ==
    /\ mpc = "select"
    /\ probe = <<>>
    /\ \E i \in pivot .. (dim - 1), s \in Scales :
          probe' = <<i, s, index_best(ScaleRow(matrix, dim, i, s), dim, pivot, tolerance)>>
    /\ UNCHANGED <<obj, dim, swaps, order, tolerance, matrix, loaded, phase, pivot,
                   mpc, argn, A0, sels, zdiv, snap, calls, displayed>>

PivotNext == Select \/ SelectScaled

PivotSpec == PivotInit /\ [][PivotNext]_vars

----------------------------------------------------------------------------
(* Vocabulary of the properties *)

\* x and y are the same number (NaN equals nothing)
NumEq(x, y) == ~IsNaN(x) /\ ~IsNaN(y) /\ x = y

MatEq(X, Y, n) == \A i \in Idx(n), j \in Idx(n) : NumEq(X[i][j], Y[i][j])

RECURSIVE DotFrom(_, _, _, _, _, _)
DotFrom(X, Y, i, j, k, n) ==
    IF k >= n THEN Zero ELSE Add(Mul(X[i][k], Y[k][j]), DotFrom(X, Y, i, j, k + 1, n))

MatMul(X, Y, n) == [i \in Idx(n) |-> [j \in Idx(n) |-> DotFrom(X, Y, i, j, 0, n)]]

\* after p pivot steps: the multipliers stored below the diagonal in columns
\* 0..p-1, with a unit diagonal
LowerPart(m, n, p) ==
    [i \in Idx(n) |-> [j \in Idx(n) |->
        IF i = j THEN One ELSE IF j < i /\ j < p THEN m[i][j] ELSE Zero]]

\* after p pivot steps: rows 0..p-1 on and above the diagonal, and what is left
\* to decompose in rows and columns p..n-1
UpperPart(m, n, p) ==
    [i \in Idx(n) |-> [j \in Idx(n) |->
        IF (i < p /\ j >= i) \/ (i >= p /\ j >= p) THEN m[i][j] ELSE Zero]]

\* L: the strictly-below-diagonal entries and a unit diagonal
LMatrix(m, n) == LowerPart(m, n, n)

\* U: the on-and-above-diagonal entries
UMatrix(m, n) == UpperPart(m, n, n)

IsBijection(o, n) ==
    /\ \A k \in Idx(n) : o[k] \in Idx(n)
    /\ \A k \in Idx(n), l \in Idx(n) : o[k] = o[l] => k = l

\* P*A: row k is row o[k] of A
Permuted(A, o, n) == [k \in Idx(n) |-> A[o[k]]]

\* L*U = P*A for the stored factors, the permutation and the input of this call
LUEqualsPA ==
    /\ IsBijection(order, dim)
    /\ MatEq(MatMul(LMatrix(matrix, dim), UMatrix(matrix, dim), dim),
             Permuted(A0, order, dim), dim)

\* the same after pivot steps 0..pivot-1 only
PartialLUEqualsPA ==
    /\ IsBijection(order, dim)
    /\ MatEq(MatMul(LowerPart(matrix, dim, pivot), UpperPart(matrix, dim, pivot), dim),
             Permuted(A0, order, dim), dim)

NoSpecials(m, n) == \A i \in Idx(n), j \in Idx(n) : IsFinite(m[i][j])

HasZeroRow(m, n) == \E i \in Idx(n) : \A j \in Idx(n) : m[i][j] = Zero

Returned == phase \in {"completed", "aborted"}

\* the matrix decompose() was entered with is a matrix of real numbers
RealInput == NoSpecials(A0, dim)

\* the number of pivot steps of this call whose selected row was not the pivot row
ActualInterchanges == Cardinality({k \in 1 .. Len(sels) : sels[k] # k - 1})

ScenarioMatrix == FromRows(Scenario, 3)

\* max over j in p..n-1 of |m[i][j]|, for a row of numbers
MaxAbs(m, n, i, p) ==
    CHOOSE x \in {Abs(m[i][j]) : j \in p .. (n - 1)} :
        \A j \in p .. (n - 1) : ~Gt(Abs(m[i][j]), x)

\* |m[i][p]| / max_j |m[i][j]|
Ratio(m, n, i, p) == Div(Abs(m[i][p]), MaxAbs(m, n, i, p))

\* the lowest row of p..n-1 that maximises the ratio among the rows of positive
\* ratio, and p when there is none
RelativeArgmax(m, n, p) ==
    LET pos == {i \in p .. (n - 1) : Gt(Ratio(m, n, i, p), Zero)}
        top == {i \in pos : \A k \in pos : ~Gt(Ratio(m, n, k, p), Ratio(m, n, i, p))}
    IN  IF pos = {} THEN p ELSE CHOOSE i \in top : \A k \in top : i <= k

\* the lowest row of p..n-1 with the largest |m[i][p]|
RawArgmax(m, n, p) ==
    LET top == {i \in p .. (n - 1) : \A k \in p .. (n - 1) : ~Gt(Abs(m[k][p]), Abs(m[i][p]))}
    IN  CHOOSE i \in top : \A k \in top : i <= k

NoRowBelowTolerance(m, n, p, tol) == \A i \in p .. (n - 1) : ~Lt(MaxAbs(m, n, i, p), tol)

----------------------------------------------------------------------------
(* Properties *)

\* C1 (as claimed; refuted): whenever decompose of a real matrix runs to
\* completion, L*U = P*A for the stored factors and the permutation.
C1_CompletedGivesLUEqualsPA == (phase = "completed" /\ RealInput) => LUEqualsPA

\* Supporting lemma: L*U = P*A when the call completed without dividing by zero.
LUEqualsPAWithoutZeroDivision ==
    (phase = "completed" /\ RealInput /\ ~zdiv) => LUEqualsPA

\* C2 (as claimed; refuted): from construction on, the permutation is a
\* bijection over [0, n); it is the identity after construction, and position k
\* holds the data derived from original row Permutation[k].
C2_PermutationAlwaysBijection ==
    (obj = "live" /\ dim >= 1) =>
        /\ IsBijection(order, dim)
        /\ calls = 0 => order = Identity(dim)
        /\ (calls >= 1 /\ RealInput /\ ~zdiv) => PartialLUEqualsPA

\* Supporting lemma: the same from the first decompose() on.
PermutationBijectionOnceDecomposed ==
    (obj = "live" /\ calls >= 1) =>
        /\ IsBijection(order, dim)
        /\ (RealInput /\ ~zdiv) => PartialLUEqualsPA

\* C3 (as claimed; refuted): decompose starts with SwapCount 0, and returns with
\* SwapCount equal to the number of actual interchanges of that invocation.
C3_SwapCountIsPerInvocation ==
    /\ (phase = "running" /\ pivot = 0) => swaps = 0
    /\ Returned => swaps = ActualInterchanges

\* C4 (as claimed; refuted): for any tolerance, an input with an all-zero row,
\* or a scanned row below tolerance, makes decompose fail before any division
\* by zero, and no NaN or infinity is computed or stored.
C4_ZeroRowAlwaysFails ==
    /\ (Returned /\ dim >= 1 /\ HasZeroRow(A0, dim)) => phase = "aborted"
    /\ (Returned /\ RealInput /\ (phase = "aborted" \/ HasZeroRow(A0, dim))) =>
            (~zdiv /\ NoSpecials(matrix, dim))

\* Supporting lemma: the same for the tolerances above zero.
ZeroRowFailsAboveZeroTolerance == Gt(tolerance, Zero) => C4_ZeroRowAlwaysFails

\* C5 (as claimed; refuted): multiplying candidate row i by s > 0 never changes
\* the outcome of index_best, neither the row nor success or failure.
C5_ScalingNeverChangesOutcome ==
    (sels # <<>> /\ probe # <<>>) => probe[3] = sels[1]

\* the row_max of row i is on the same side of the tolerance before and after
\* the row is multiplied by s
SameSideOfTolerance(i, s) ==
    Lt(RowMax(matrix, dim, i, pivot), tolerance)
        <=> Lt(Mul(s, RowMax(matrix, dim, i, pivot)), tolerance)

\* C5 (amended): multiplying candidate row i by s > 0 does not change the
\* outcome of index_best, provided the scaling does not move row i's row_max
\* across the tolerance.
C5_ScalingInvariantWithinTolerance ==
    (sels # <<>> /\ probe # <<>> /\ SameSideOfTolerance(probe[1], probe[2]))
        => probe[3] = sels[1]

\* C5 witness: the scaled row is the one selected, before and after the scaling,
\* and another candidate row has the larger raw entry after it.
C5_Witness ==
    /\ sels # <<>>
    /\ probe # <<>>
    /\ sels[1] # Throw
    /\ probe[1] = sels[1]
    /\ probe[3] = sels[1]
    /\ probe[2] = <<1, 2>>
    /\ \E k \in pivot .. (dim - 1) :
          Gt(Abs(matrix[k][pivot]), Mul(probe[2], Abs(matrix[sels[1]][pivot])))

\* C6 (as claimed; refuted): on the scenario the first pivot step selects row 2,
\* SwapCount ends at least 1, and L*U = P*A.
C6_ScenarioSelectsRowTwo ==
    (A0 = ScenarioMatrix /\ calls = 1) =>
        /\ Len(sels) >= 1 => sels[1] = 2
        /\ phase = "completed" => (swaps >= 1 /\ LUEqualsPA)

\* C6 (amended): on the scenario the first pivot step selects row 0 (ratio
\* 2/2 = 1, which no later row exceeds), no interchange happens, SwapCount ends
\* 0, and L*U = P*A with the identity permutation.
C6_ScenarioSelectsRowZero ==
    (A0 = ScenarioMatrix /\ calls = 1) =>
        /\ Len(sels) >= 1 => sels[1] = 0
        /\ phase = "completed" =>
              (swaps = 0 /\ order = Identity(3) /\ LUEqualsPA)

\* C6 witness: the first decompose() of the scenario has completed.
C6_Witness == A0 = ScenarioMatrix /\ calls = 1 /\ phase = "completed" /\ Len(sels) = 3

\* C7 (as claimed; refuted): main displays the factors only after a successful
\* construction and a decomposition that completed every pivot step.
C7_DisplayOnlyAfterSuccess == displayed => (dim >= 1 /\ phase = "completed")

\* C8: when no scanned row is below tolerance, index_best returns the lowest row
\* maximising |m[i][p]| / max_j |m[i][j]| among the rows of positive ratio, and
\* p when every ratio is 0.
C8_IndexBestIsRelativeArgmax ==
    (sels # <<>> /\ NoRowBelowTolerance(matrix, dim, pivot, tolerance))
        => sels[1] = RelativeArgmax(matrix, dim, pivot)

\* C8 witness: a selection that is not the row of the largest raw entry.
C8_Witness ==
    /\ sels # <<>>
    /\ NoRowBelowTolerance(matrix, dim, pivot, tolerance)
    /\ sels[1] # RawArgmax(matrix, dim, pivot)
    /\ sels[1] # pivot

\* C9: when pivot selection throws at pivot p, the matrix, the permutation and
\* SwapCount are those of the end of step p-1 (of the entry to decompose when
\* p = 0), exactly p pivot steps have run, and steps 0..p-1 are final: for a
\* real input the stored multipliers and U rows factor the permuted input up
\* to column p.
C9_AbortKeepsPreviousStep ==
    phase = "aborted" =>
        /\ <<matrix, order, swaps>> = snap
        /\ Len(sels) = pivot
        /\ pivot = 0 => (matrix = A0 /\ order = Identity(dim))
        /\ swaps >= ActualInterchanges
        /\ RealInput => PartialLUEqualsPA

\* C9 witness: an abort at the last of three pivots after an interchange.
C9_Witness ==
    /\ phase = "aborted"
    /\ dim = 3
    /\ pivot = 2
    /\ ActualInterchanges >= 1
    /\ matrix # A0
    /\ RealInput

\* C10 (as claimed; refuted): with a tolerance > 0, a pivot step that does not
\* throw leaves a non-zero divisor on the diagonal for its elimination.
C10_DivisorNonZero ==
    (phase = "running" /\ pivot < dim /\ Gt(tolerance, Zero)) =>
        LET s == index_best(matrix, dim, pivot, tolerance)
        IN  \/ s = Throw
            \/ pivot + 1 >= dim
            \/ rswap(matrix, pivot, s)[pivot][pivot] # Zero

\* Supporting lemma: the divisions by zero of a call are exactly what zdiv records,
\* and without one the matrix stays free of NaN and infinities.
NoSpecialsWithoutZeroDivision ==
    (obj = "live" /\ calls >= 1 /\ RealInput /\ ~zdiv) => NoSpecials(matrix, dim)

====
